---- MODULE Spec2Model ----
(***************************************************************************)
(* Model of FantasyStats (src/fantasy_stats.py) and of the older script    *)
(* version of the same functions (src/main.py): the optimal-lineup engine, *)
(* the game classifier, the perfect-record accumulator, the draft-class    *)
(* builder, the season aggregators, the concurrent season fetch and the    *)
(* draft join.                                                             *)
(*                                                                         *)
(* A call that can raise is modelled by a record with an `exc` field:      *)
(* NoExc when the call returns, otherwise the name of the Python exception *)
(* that leaves the call.                                                   *)
(***************************************************************************)
EXTENDS Integers, Sequences, FiniteSets, TLC

VARIABLES
    cfg,          \* self.num_qb .. self.num_k, set by __init__
    lineup,       \* the lineup argument of _get_perfect_score
    idx,          \* number of lineup entries the partition loop has consumed
    buckets,      \* the six local lists QBs, RBs, WRs, TEs, DSTs, Ks
    pc,           \* position of the running operation
    result,       \* outcome of the last engine call
    week,         \* loop variable of the week loops
    games,        \* the rows _get_games has built
    boxes,        \* box scores the provider has returned to the running loop
    winners,      \* get_perfect_record: winners list
    losers,       \* get_perfect_record: losers list
    standings,    \* get_perfect_record: the standings rows
    season,       \* league.settings.reg_season_count and league.current_week
    draft,        \* league.draft
    players,      \* what league.player_info returned for the draft ids
    team_bye,     \* self.team_bye
    finished_weeks, \* self.finished_weeks
    pick_i,       \* number of picks the _get_draft_class loop has consumed
    player,       \* the loop variable `player`, which outlives the inner loop
    player_stats, \* the local name player_stats: a reference into heap
    games_played, \* the local name games_played
    heap,         \* the list objects created by `player_stats = []`
    players_stats,\* the list of references extended once per pick
    draft_class,  \* outcome of _get_draft_class
    first_call,   \* outcome of the engine call before the running one
    week_stats,   \* the player_stats argument of the season aggregators
    max_week,     \* self.finished_weeks / the num_of_weeks argument
    player_score, \* outcome of the last aggregator call
    player_map,   \* league.player_map: the keys the batch iterates over
    provider,     \* what league.player_info returns for each player id
    futures,      \* the futures of get_all_player_scoring, one per key
    players_stat, \* get_all_player_scoring: the rows collected so far
    scoring,      \* the table get_all_player_scoring returns
    top_players,  \* the players argument of _add_draft_info
    join_i,       \* number of players the join loop has consumed
    drafted_by,   \* _add_draft_info: the list drafted_by
    draft_round,  \* _add_draft_info: the list draft_round
    joined        \* the players table after the two inserts

vars == << cfg, lineup, idx, buckets, pc, result, week, games, boxes, winners,
           losers, standings, season, draft, players, team_bye,
           finished_weeks, pick_i, player, player_stats, games_played, heap,
           players_stats, draft_class, first_call, week_stats, max_week,
           player_score, player_map, provider, futures, players_stat, scoring,
           top_players, join_i, drafted_by, draft_round, joined >>

engineVars == << lineup, idx, buckets, result, first_call >>
seasonVars == << week, games, boxes, winners, losers, standings, season >>
draftVars  == << draft, players, team_bye, finished_weeks, pick_i, player,
                 player_stats, games_played, heap, players_stats, draft_class >>
tableVars  == << week_stats, max_week, player_score, player_map, provider, futures,
                 players_stat, scoring, top_players, join_i, drafted_by,
                 draft_round, joined >>

----------------------------------------------------------------------------
(* Bounds of the model *)

MaxLineup == 2      \* longest lineup explored by the engine specification
MaxPoints == 1      \* player points range over 0..MaxPoints
MaxSlots == 2      \* slot counts range over 0..MaxSlots around the default
MaxWeeks == 2      \* reg_season_count ranges over 1..MaxWeeks
MaxScore == 1      \* team scores range over 0..MaxScore
MaxDraft == 2      \* longest draft list; player ids range over 1..MaxDraft

----------------------------------------------------------------------------
(* Values *)

NoExc == "none"
\* A local name is <<>> until it is assigned and <<v>> once it holds v
Unbound == <<>>
Bound(v) == <<v>>
\* _get_draft_class has not ended yet
NoDraftClass == [exc |-> NoExc, rows |-> <<>>]

Positions == {"QB", "RB", "WR", "TE", "D/ST", "K"}
FlexPositions == {"RB", "WR", "TE"}
SlotNames == {"qb", "rb", "wr", "te", "flex", "dst", "k"}

\* The keyword defaults of FantasyStats.__init__
DefaultConfig ==
    [qb |-> 1, rb |-> 2, wr |-> 3, te |-> 1, flex |-> 1, dst |-> 1, k |-> 1]

\* The counts hard-coded in the calls of main.get_perfect_score
MainConfig ==
    [qb |-> 1, rb |-> 2, wr |-> 3, te |-> 1, flex |-> 1, dst |-> 1, k |-> 1]

\* Configurations explored: the default with one count replaced
Configs ==
    {DefaultConfig} \cup
    {[DefaultConfig EXCEPT ![s] = n] : s \in SlotNames, n \in 0..MaxSlots}

Points == 0..MaxPoints
Player == [position : Positions, points : Points]

RECURSIVE SeqsUpTo(_, _)
SeqsUpTo(S, n) ==
    IF n = 0 THEN {<<>>}
    ELSE LET shorter == SeqsUpTo(S, n - 1)
         IN  shorter \cup {Append(q, e) : q \in {r \in shorter : Len(r) = n - 1}, e \in S}

Lineups == SeqsUpTo(Player, MaxLineup)

EmptyBuckets ==
    [QBs |-> <<>>, RBs |-> <<>>, WRs |-> <<>>, TEs |-> <<>>, DSTs |-> <<>>, Ks |-> <<>>]

RECURSIVE SumSeq(_)
SumSeq(s) == IF s = <<>> THEN 0 ELSE Head(s) + SumSeq(Tail(s))

RECURSIVE MaxSeq(_)
\* Python max() of a non-empty list
MaxSeq(s) ==
    IF Len(s) = 1 THEN Head(s)
    ELSE LET m == MaxSeq(Tail(s)) IN IF Head(s) >= m THEN Head(s) ELSE m

----------------------------------------------------------------------------
(* The optimal-lineup engine *)

\* _insert_player_score / insert_player_score: insert before the first
\* strictly smaller value, else append
_insert_player_score_append(scores, score) == Append(scores, score)

_insert_player_score(scores, score) ==
    LET smaller == {i \in 1..Len(scores) : score > scores[i]}
    IN  IF smaller = {} THEN Append(scores, score)
        ELSE LET at == CHOOSE i \in smaller : \A j \in smaller : i <= j
             IN  SubSeq(scores, 1, at - 1) \o <<score>> \o SubSeq(scores, at, Len(scores))

\* The if/elif chain of the partition loop; a position outside the six tags
\* matches no branch and leaves every list as it is
InsertIntoBuckets(b, p) ==
    IF p.position = "QB" THEN [b EXCEPT !.QBs = _insert_player_score(b.QBs, p.points)]
    ELSE IF p.position = "RB" THEN [b EXCEPT !.RBs = _insert_player_score(b.RBs, p.points)]
    ELSE IF p.position = "WR" THEN [b EXCEPT !.WRs = _insert_player_score(b.WRs, p.points)]
    ELSE IF p.position = "TE" THEN [b EXCEPT !.TEs = _insert_player_score(b.TEs, p.points)]
    ELSE IF p.position = "D/ST" THEN [b EXCEPT !.DSTs = _insert_player_score(b.DSTs, p.points)]
    ELSE IF p.position = "K" THEN [b EXCEPT !.Ks = _insert_player_score(b.Ks, p.points)]
    ELSE b

RECURSIVE PartitionFrom(_, _, _)
PartitionFrom(b, l, i) ==
    IF i > Len(l) THEN b ELSE PartitionFrom(InsertIntoBuckets(b, l[i]), l, i + 1)

\* The whole partition loop of _get_perfect_score
Partition(l) == PartitionFrom(EmptyBuckets, l, 1)

RECURSIVE _get_top_score_loop(_, _, _)
\* FantasyStats._get_top_score: pop(0) `number` times, an IndexError of an
\* empty list is caught and the iteration skipped
_get_top_score_loop(top_score, scores, number) ==
    IF number <= 0 THEN [exc |-> NoExc, top_score |-> top_score, scores |-> scores]
    ELSE IF scores = <<>> THEN _get_top_score_loop(top_score, scores, number - 1)
    ELSE _get_top_score_loop(top_score + Head(scores), Tail(scores), number - 1)

_get_top_score(scores, number) == _get_top_score_loop(0, scores, number)

RECURSIVE get_top_score_loop(_, _, _)
\* main.get_top_score: the same loop without the try, so pop(0) of an empty
\* list leaves the function with IndexError
get_top_score_loop(top_score, scores, number) ==
    IF number <= 0 THEN [exc |-> NoExc, top_score |-> top_score, scores |-> scores]
    ELSE IF scores = <<>> THEN [exc |-> "IndexError", top_score |-> top_score, scores |-> scores]
    ELSE get_top_score_loop(top_score + Head(scores), Tail(scores), number - 1)

get_top_score(scores, number) == get_top_score_loop(0, scores, number)

\* F_score = max(WRs + RBs + TEs): max() of an empty list raises ValueError
FlexScore(WRs, RBs, TEs) ==
    LET pool == WRs \o RBs \o TEs
    IN  IF pool = <<>> THEN [exc |-> "ValueError", score |-> 0]
        ELSE [exc |-> NoExc, score |-> MaxSeq(pool)]

\* Lines 335-346 of _get_perfect_score, from the six sorted lists
ScoreBuckets(b, c) ==
    LET QB  == _get_top_score(b.QBs, c.qb)
        RB  == _get_top_score(b.RBs, c.rb)
        WR  == _get_top_score(b.WRs, c.wr)
        TE  == _get_top_score(b.TEs, c.te)
        DST == _get_top_score(b.DSTs, c.dst)
        K   == _get_top_score(b.Ks, c.k)
        F   == FlexScore(WR.scores, RB.scores, TE.scores)
    IN  IF F.exc # NoExc THEN [exc |-> F.exc, total_score |-> 0]
        ELSE [exc |-> NoExc,
              total_score |-> QB.top_score + RB.top_score + WR.top_score
                              + TE.top_score + DST.top_score + K.top_score + F.score]

\* FantasyStats._get_perfect_score as a function of the lineup and the counts
_get_perfect_score(l, c) == ScoreBuckets(Partition(l), c)

\* Lines 270-279 of main.get_perfect_score: the first call that raises ends it
MainScoreBuckets(b) ==
    LET QB  == get_top_score(b.QBs, MainConfig.qb)
        RB  == get_top_score(b.RBs, MainConfig.rb)
        WR  == get_top_score(b.WRs, MainConfig.wr)
        TE  == get_top_score(b.TEs, MainConfig.te)
        DST == get_top_score(b.DSTs, MainConfig.dst)
        K   == get_top_score(b.Ks, MainConfig.k)
        calls == <<QB, RB, WR, TE, DST, K>>
        F   == FlexScore(WR.scores, RB.scores, TE.scores)
    IN  IF \E i \in 1..6 : calls[i].exc # NoExc
        THEN [exc |-> "IndexError", total_score |-> 0]
        ELSE IF F.exc # NoExc THEN [exc |-> F.exc, total_score |-> 0]
        ELSE [exc |-> NoExc,
              total_score |-> QB.top_score + RB.top_score + WR.top_score
                              + TE.top_score + DST.top_score + K.top_score + F.score]

get_perfect_score(l) == MainScoreBuckets(Partition(l))

NoResult == [impl |-> "none", exc |-> NoExc, total_score |-> 0]

----------------------------------------------------------------------------
(* Idle values of the parts a specification does not use *)

IdleEngine ==
    /\ lineup = <<>> /\ idx = 0 /\ buckets = EmptyBuckets /\ result = NoResult
    /\ first_call = NoResult

IdleSeason ==
    /\ week = 0 /\ games = <<>> /\ boxes = <<>> /\ winners = <<>>
    /\ losers = <<>> /\ standings = <<>> /\ season = [reg_season_count |-> 0, current_week |-> 0]

IdleDraft ==
    /\ draft = <<>> /\ players = <<>> /\ team_bye = <<>> /\ finished_weeks = 0
    /\ pick_i = 0 /\ player = Unbound /\ player_stats = Unbound
    /\ games_played = Unbound /\ heap = <<>>
    /\ players_stats = <<>> /\ draft_class = NoDraftClass

NoScore == [impl |-> "none", score |-> 0]

IdleScore ==
    /\ week_stats = <<>> /\ max_week = 0 /\ player_score = NoScore

IdleFetch ==
    /\ player_map = {} /\ provider = <<>> /\ futures = <<>>
    /\ players_stat = <<>> /\ scoring = <<>>

IdleJoin ==
    /\ top_players = <<>> /\ join_i = 0 /\ drafted_by = <<>>
    /\ draft_round = <<>> /\ joined = <<>>

IdleTables == IdleScore /\ IdleFetch /\ IdleJoin

----------------------------------------------------------------------------
(* Specification of one engine call *)

InitEngine ==
    /\ cfg \in Configs
    /\ lineup \in Lineups
    /\ idx = 0
    /\ buckets = EmptyBuckets
    /\ pc = "partition"
    /\ result = NoResult
    /\ first_call = NoResult
    /\ IdleSeason
    /\ IdleDraft
    /\ IdleTables

\* One iteration of `for player in lineup`
InsertPlayer ==
    /\ pc = "partition"
    /\ idx < Len(lineup)
    /\ idx' = idx + 1
    /\ buckets' = InsertIntoBuckets(buckets, lineup[idx + 1])
    /\ UNCHANGED << cfg, lineup, pc, result, first_call, seasonVars, draftVars, tableVars >>

\* The rest of FantasyStats._get_perfect_score
ScoreLineup ==
    /\ pc = "partition"
    /\ idx = Len(lineup)
    /\ LET r == ScoreBuckets(buckets, cfg)
       IN  result' = [impl |-> "fantasy_stats", exc |-> r.exc, total_score |-> r.total_score]
    /\ pc' = "done"
    /\ UNCHANGED << cfg, lineup, idx, buckets, first_call, seasonVars, draftVars,
                    tableVars >>

\* The rest of main.get_perfect_score
ScoreLineupMain ==
    /\ pc = "partition"
    /\ idx = Len(lineup)
    /\ LET r == MainScoreBuckets(buckets)
       IN  result' = [impl |-> "main", exc |-> r.exc, total_score |-> r.total_score]
    /\ pc' = "done"
    /\ UNCHANGED << cfg, lineup, idx, buckets, first_call, seasonVars, draftVars,
                    tableVars >>

\* The six local lists a call starts with (QBs = [] .. Ks = []), whatever
\* lists the call before it built
StaleBuckets(b) == b

FreshBuckets(b) == EmptyBuckets

\* The caller calls the engine once more with the same lineup
CallAgain ==
    /\ pc = "done"
    /\ first_call = NoResult
    /\ first_call' = result
    /\ result' = NoResult
    /\ idx' = 0
    /\ buckets' = FreshBuckets(buckets)
    /\ pc' = "partition"
    /\ UNCHANGED << cfg, lineup, seasonVars, draftVars, tableVars >>

NextEngine == InsertPlayer \/ ScoreLineup \/ ScoreLineupMain \/ CallAgain

SpecEngine == InitEngine /\ [][NextEngine]_vars

----------------------------------------------------------------------------
(* What the specification says the engine computes *)

\* s without one occurrence of its largest value
RemoveMax(s) ==
    LET at == CHOOSE i \in 1..Len(s) : \A j \in 1..Len(s) : s[i] >= s[j]
    IN  SubSeq(s, 1, at - 1) \o SubSeq(s, at + 1, Len(s))

RECURSIVE TopSum(_, _)
\* Sum of the n largest values of s, of all of them if there are fewer
TopSum(s, n) ==
    IF n <= 0 \/ s = <<>> THEN 0 ELSE MaxSeq(s) + TopSum(RemoveMax(s), n - 1)

RECURSIVE DropTop(_, _)
\* What is left of s once its n largest values are taken
DropTop(s, n) ==
    IF n <= 0 \/ s = <<>> THEN s ELSE DropTop(RemoveMax(s), n - 1)

RECURSIVE PointsOf(_, _)
\* Points of the players of position p, in lineup order
PointsOf(l, p) ==
    IF l = <<>> THEN <<>>
    ELSE (IF Head(l).position = p THEN <<Head(l).points>> ELSE <<>>) \o PointsOf(Tail(l), p)

FixedSum(l, c) ==
    TopSum(PointsOf(l, "QB"), c.qb) + TopSum(PointsOf(l, "RB"), c.rb)
    + TopSum(PointsOf(l, "WR"), c.wr) + TopSum(PointsOf(l, "TE"), c.te)
    + TopSum(PointsOf(l, "D/ST"), c.dst) + TopSum(PointsOf(l, "K"), c.k)

\* RB, WR and TE values left once the fixed slots are filled
FlexPool(l, c) ==
    DropTop(PointsOf(l, "RB"), c.rb) \o DropTop(PointsOf(l, "WR"), c.wr)
    \o DropTop(PointsOf(l, "TE"), c.te)

\* Steps 2-4 of the specified algorithm
SpecifiedScore(l, c) == FixedSum(l, c) + TopSum(FlexPool(l, c), c.flex)

\* Slots a player may fill, "bench" for none
SlotsFor(p) ==
    {"bench"} \cup
    (IF p.position = "QB" THEN {"qb"} ELSE IF p.position = "RB" THEN {"rb"}
     ELSE IF p.position = "WR" THEN {"wr"} ELSE IF p.position = "TE" THEN {"te"}
     ELSE IF p.position = "D/ST" THEN {"dst"} ELSE IF p.position = "K" THEN {"k"}
     ELSE {})
    \cup (IF p.position \in FlexPositions THEN {"flex"} ELSE {})

\* Assignments of the lineup's players to slots that respect the counts
ValidAssignments(l, c) ==
    {a \in [1..Len(l) -> SlotNames \cup {"bench"}] :
        /\ \A i \in 1..Len(l) : a[i] \in SlotsFor(l[i])
        /\ \A s \in SlotNames : Cardinality({i \in 1..Len(l) : a[i] = s}) <= c[s]}

RECURSIVE AssignmentPointsFrom(_, _, _)
AssignmentPointsFrom(l, a, i) ==
    IF i > Len(l) THEN 0
    ELSE (IF a[i] = "bench" THEN 0 ELSE l[i].points) + AssignmentPointsFrom(l, a, i + 1)

AssignmentPoints(l, a) == AssignmentPointsFrom(l, a, 1)

\* The largest total any valid assignment reaches
BestAssignmentScore(l, c) ==
    LET totals == {AssignmentPoints(l, a) : a \in ValidAssignments(l, c)}
    IN  CHOOSE t \in totals : \A u \in totals : t >= u

EngineReturned == pc = "done" /\ result.impl = "fantasy_stats" /\ result.exc = NoExc
EngineCalled == pc = "done" /\ result.impl = "fantasy_stats"

\* C1: whenever _get_perfect_score returns, the value is the sum of the top
\* n_p values of every fixed position plus the sum of the top `flex` values
\* of the pooled RB/WR/TE leftovers
C1_FlexGeneralised ==
    EngineReturned => result.total_score = SpecifiedScore(lineup, cfg)

\* C2: with no RB, WR or TE value left after the fixed slots, the engine
\* does not raise and returns the fixed sums alone (flex part 0)
C2_EmptyFlexPoolNoRaise ==
    (EngineCalled /\ FlexPool(lineup, cfg) = <<>>)
        => (result.exc = NoExc /\ result.total_score = FixedSum(lineup, cfg))

TopScoreDegrades(r, bucket) ==
    r.exc = NoExc /\ r.top_score = SumSeq(bucket) /\ r.scores = <<>>

BucketNames == {"QBs", "RBs", "WRs", "TEs", "DSTs", "Ks"}

\* C3: for a bucket shorter than the slot count n, the top-score step of
\* both files returns the sum of what is there, leaves the bucket empty and
\* does not raise
C3_ShortRosterBothFiles ==
    pc = "done" => \A b \in BucketNames : \A n \in 0..(MaxSlots + 1) :
        Len(buckets[b]) < n =>
            /\ TopScoreDegrades(_get_top_score(buckets[b], n), buckets[b])
            /\ TopScoreDegrades(get_top_score(buckets[b], n), buckets[b])

\* C4: the returned value is the maximum total over all valid assignments of
\* players to slots
C4_Optimal ==
    EngineReturned => result.total_score = BestAssignmentScore(lineup, cfg)

\* C5: raising one slot count by one never lowers the engine's result
C5_Monotone ==
    EngineReturned =>
        \A s \in SlotNames :
            LET more == _get_perfect_score(lineup, [cfg EXCEPT ![s] = @ + 1])
            IN  more.exc = NoExc /\ more.total_score >= result.total_score


\* C13: a call of _get_perfect_score leaves the lineup and the slot counts
\* as they were and keeps nothing between calls, so a second call with the
\* same lineup ends as the first one did: the same value, or the same
\* exception
C13_Idempotent ==
    /\ []((pc = "done" /\ first_call.impl = result.impl) => result = first_call)
    /\ [][lineup' = lineup /\ cfg' = cfg]_vars

\* The engine of fantasy_stats.py has returned a positive score twice
C13_Witness ==
    /\ pc = "done"
    /\ first_call.impl = "fantasy_stats"
    /\ result.impl = "fantasy_stats"
    /\ result.exc = NoExc
    /\ result.total_score > 0
    /\ Len(lineup) = MaxLineup


----------------------------------------------------------------------------
(* The engine on a configuration or a lineup outside the expected domain *)

\* __init__ stores the counts it is given: a negative count is accepted
NegativeConfigs == { [DefaultConfig EXCEPT ![s] = -1] : s \in SlotNames }

\* A position tag none of the six branches of the partition loop names
UnknownPositions == {"P"}
UnknownPlayer == [position : UnknownPositions, points : Points]

UnknownLineups ==
    { l \in SeqsUpTo(Player \cup UnknownPlayer, MaxLineup) :
        \E i \in 1..Len(l) : l[i].position \in UnknownPositions }

InitInvalid ==
    /\ \/ cfg \in NegativeConfigs /\ lineup \in Lineups
       \/ cfg \in Configs /\ lineup \in UnknownLineups
    /\ idx = 0
    /\ buckets = EmptyBuckets
    /\ pc = "partition"
    /\ result = NoResult
    /\ first_call = NoResult
    /\ IdleSeason
    /\ IdleDraft
    /\ IdleTables

SpecInvalid == InitInvalid /\ [][NextEngine]_vars

InvalidInput ==
    \/ \E s \in SlotNames : cfg[s] < 0
    \/ \E i \in 1..Len(lineup) : lineup[i].position \notin Positions

\* C14: with a negative slot count or a player of an unknown position the
\* engine ends in an error and never returns a score
C14_InvalidInputRejected ==
    (EngineCalled /\ InvalidInput) => result.exc # NoExc


----------------------------------------------------------------------------
(* One bucket filled in every order *)

\* Lineups of running backs only, one longer and with one more value than
\* the lineups of the engine specification: every insertion order of up to
\* MaxLineup + 1 values into one bucket
BucketPoints == 0..(MaxPoints + 1)
BucketLineups == SeqsUpTo([position : {"RB"}, points : BucketPoints], MaxLineup + 1)

InitBucket ==
    /\ cfg = DefaultConfig
    /\ lineup \in BucketLineups
    /\ idx = 0
    /\ buckets = EmptyBuckets
    /\ pc = "partition"
    /\ result = NoResult
    /\ first_call = NoResult
    /\ IdleSeason
    /\ IdleDraft
    /\ IdleTables

SpecBucket == InitBucket /\ [][NextEngine]_vars

IsNonIncreasing(s) == \A i \in 1..(Len(s) - 1) : s[i] >= s[i + 1]

CountIn(s, v) == Cardinality({ i \in 1..Len(s) : s[i] = v })

SameMultiset(a, b) ==
    /\ Len(a) = Len(b)
    /\ \A i \in 1..Len(a) : CountIn(a, a[i]) = CountIn(b, a[i])

PositionOf(b) ==
    IF b = "QBs" THEN "QB" ELSE IF b = "RBs" THEN "RB" ELSE IF b = "WRs" THEN "WR"
    ELSE IF b = "TEs" THEN "TE" ELSE IF b = "DSTs" THEN "D/ST" ELSE "K"

\* The values the partition loop has inserted into a bucket so far, in
\* insertion order
Inserted(b) == PointsOf(SubSeq(lineup, 1, idx), PositionOf(b))

\* C17: after any sequence of _insert_player_score calls a bucket is in
\* non-increasing order and holds exactly the inserted values; for every k,
\* _get_top_score(bucket, k) returns the sum of the k largest inserted
\* values (of all of them if there are fewer) and leaves the remaining
\* values in non-increasing order, whatever the insertion order was
C17_InsertPopIsSortTake ==
    \A b \in BucketNames :
        /\ IsNonIncreasing(buckets[b])
        /\ SameMultiset(buckets[b], Inserted(b))
        /\ \A k \in 0..(MaxLineup + 2) :
              LET r == _get_top_score(buckets[b], k)
              IN  /\ r.exc = NoExc
                  /\ r.top_score = TopSum(Inserted(b), k)
                  /\ IsNonIncreasing(r.scores)
                  /\ SameMultiset(r.scores, DropTop(Inserted(b), k))

\* Three values were inserted smallest first, the last one between the
\* other two
C17_Witness ==
    /\ idx = 3
    /\ Inserted("RBs") = <<0, 2, 1>>
    /\ buckets.RBs = <<2, 1, 0>>
    /\ _get_top_score(buckets.RBs, 2).top_score = 3
    /\ _get_top_score(buckets.RBs, 2).scores = <<0>>

----------------------------------------------------------------------------
(* The season: box scores, the game classifier, the perfect record *)

\* A league of two teams plays one game a week
Teams == {"T1", "T2"}
Scores == 0..MaxScore
Projections == {0, 1}

BenchPlayer(points) == <<[position |-> "RB", points |-> points]>>

\* A starting nine for the default slot counts, every starter scoring 1
Starters ==
    << [position |-> "QB", points |-> 1], [position |-> "RB", points |-> 1],
       [position |-> "RB", points |-> 1], [position |-> "WR", points |-> 1],
       [position |-> "WR", points |-> 1], [position |-> "WR", points |-> 1],
       [position |-> "TE", points |-> 1], [position |-> "D/ST", points |-> 1],
       [position |-> "K", points |-> 1] >>

LineupWeak == Starters \o BenchPlayer(0)
LineupStrong == Starters \o BenchPlayer(1)
LineupEmpty == <<>>
GameLineups == {LineupWeak, LineupStrong, LineupEmpty}

\* What league.box_scores(week) can hold for the week's game in the
\* classifier specification. Team, projection and lineup are carried into
\* the row unread, so the two sides always differ in each of them.
ClassifierBoxScores ==
    {[home_team |-> h, away_team |-> a, home_score |-> hs, away_score |-> as,
      home_projected |-> hp, away_projected |-> ap,
      home_lineup |-> hl, away_lineup |-> al] :
        h \in Teams, a \in Teams, hs \in Scores, as \in Scores,
        hp \in Projections, ap \in Projections,
        hl \in {LineupWeak, LineupStrong}, al \in {LineupWeak, LineupStrong}}

\* ... and in the perfect-record specification, which never reads a
\* projection and needs of the actual scores only who won
AccumulatorBoxScores(hl, al) ==
    {[home_team |-> h, away_team |-> a, home_score |-> hs, away_score |-> as,
      home_projected |-> 0, away_projected |-> 0,
      home_lineup |-> hl, away_lineup |-> al] :
        h \in Teams, a \in Teams, hs \in {0, 1}, as \in {0, 1}}

NaN == [nan |-> TRUE, value |-> 0]
Number(v) == [nan |-> FALSE, value |-> v]
abs(v) == IF v < 0 THEN 0 - v ELSE v

\* range(1, min(reg_season_count + 1, current_week)) as the last week of it
LastWeek(s) ==
    IF s.reg_season_count + 1 <= s.current_week
    THEN s.reg_season_count ELSE s.current_week - 1

\* ScoreDiff with `or` for `and`
ScoreDiffEitherZero(game) ==
    IF game.home_score = 0 \/ game.away_score = 0 THEN NaN
    ELSE Number(abs(game.home_score - game.away_score))

\* The score-diff branch of FantasyStats._get_games
ScoreDiff(game) ==
    IF game.home_score = 0 /\ game.away_score = 0 THEN NaN
    ELSE Number(abs(game.home_score - game.away_score))

\* GameRow with the tie given to the away side
GameRowTieAway(game) ==
    IF game.home_score <= game.away_score
    THEN [winner_team |-> game.away_team, winner_score |-> game.away_score,
          winner_proj |-> game.away_projected,
          loser_team |-> game.home_team, loser_score |-> game.home_score,
          loser_proj |-> game.home_projected,
          winner_lineup |-> game.away_lineup, loser_lineup |-> game.home_lineup,
          score_diff |-> ScoreDiff(game)]
    ELSE [winner_team |-> game.home_team, winner_score |-> game.home_score,
          winner_proj |-> game.home_projected,
          loser_team |-> game.away_team, loser_score |-> game.away_score,
          loser_proj |-> game.away_projected,
          winner_lineup |-> game.home_lineup, loser_lineup |-> game.away_lineup,
          score_diff |-> ScoreDiff(game)]

\* One game_stats row of FantasyStats._get_games
GameRow(game) ==
    IF game.home_score < game.away_score
    THEN [winner_team |-> game.away_team, winner_score |-> game.away_score,
          winner_proj |-> game.away_projected,
          loser_team |-> game.home_team, loser_score |-> game.home_score,
          loser_proj |-> game.home_projected,
          winner_lineup |-> game.away_lineup, loser_lineup |-> game.home_lineup,
          score_diff |-> ScoreDiff(game)]
    ELSE [winner_team |-> game.home_team, winner_score |-> game.home_score,
          winner_proj |-> game.home_projected,
          loser_team |-> game.away_team, loser_score |-> game.away_score,
          loser_proj |-> game.away_projected,
          winner_lineup |-> game.home_lineup, loser_lineup |-> game.away_lineup,
          score_diff |-> ScoreDiff(game)]

\* The score-diff branch of main.get_games
MainScoreDiff(game) ==
    IF game.home_score = 0 /\ game.away_score = 0 THEN NaN
    ELSE Number(abs(game.home_score - game.away_score))

\* One game_stats row of main.get_games
MainGameRow(game) ==
    IF game.home_score < game.away_score
    THEN [winner_team |-> game.away_team, winner_score |-> game.away_score,
          winner_proj |-> game.away_projected,
          loser_team |-> game.home_team, loser_score |-> game.home_score,
          loser_proj |-> game.home_projected,
          winner_lineup |-> game.away_lineup, loser_lineup |-> game.home_lineup,
          score_diff |-> MainScoreDiff(game)]
    ELSE [winner_team |-> game.home_team, winner_score |-> game.home_score,
          winner_proj |-> game.home_projected,
          loser_team |-> game.away_team, loser_score |-> game.away_score,
          loser_proj |-> game.away_projected,
          winner_lineup |-> game.home_lineup, loser_lineup |-> game.away_lineup,
          score_diff |-> MainScoreDiff(game)]

Seasons ==
    [impl : {"fantasy_stats", "main"}, reg_season_count : 1..MaxWeeks,
     current_week : 1..(MaxWeeks + 1)]

InitSeason ==
    /\ cfg = DefaultConfig
    /\ season \in Seasons
    /\ week = 1
    /\ games = <<>>
    /\ boxes = <<>>
    /\ winners = <<>>
    /\ losers = <<>>
    /\ standings = <<>>
    /\ IdleEngine
    /\ IdleDraft
    /\ IdleTables

InitGames == InitSeason /\ pc = "get_games"

\* One iteration of the week loop of FantasyStats._get_games
GetGamesWeek ==
    /\ pc = "get_games"
    /\ season.impl = "fantasy_stats"
    /\ week <= LastWeek(season)
    /\ \E game \in ClassifierBoxScores :
          /\ game.home_team # game.away_team
          /\ game.home_projected # game.away_projected
          /\ game.home_lineup # game.away_lineup
          /\ boxes' = Append(boxes, game)
          /\ games' = Append(games, GameRow(game))
    /\ week' = week + 1
    /\ UNCHANGED << cfg, pc, winners, losers, standings, season, engineVars, draftVars, tableVars >>

\* One iteration of the week loop of main.get_games
MainGetGamesWeek ==
    /\ pc = "get_games"
    /\ season.impl = "main"
    /\ week <= LastWeek(season)
    /\ \E game \in ClassifierBoxScores :
          /\ game.home_team # game.away_team
          /\ game.home_projected # game.away_projected
          /\ game.home_lineup # game.away_lineup
          /\ boxes' = Append(boxes, game)
          /\ games' = Append(games, MainGameRow(game))
    /\ week' = week + 1
    /\ UNCHANGED << cfg, pc, winners, losers, standings, season, engineVars, draftVars, tableVars >>

\* The week loop is over: the rows become the Games table
GetGamesDone ==
    /\ pc = "get_games"
    /\ week > LastWeek(season)
    /\ pc' = "games_done"
    /\ UNCHANGED << cfg, week, games, boxes, winners, losers, standings, season,
                    engineVars, draftVars, tableVars >>

NextGames == GetGamesWeek \/ MainGetGamesWeek \/ GetGamesDone

SpecGames == InitGames /\ [][NextGames]_vars

----------------------------------------------------------------------------
(* get_perfect_record *)

\* league.teams
LeagueTeams == <<"T1", "T2">>

\* The engine call of get_perfect_record in either file
EngineOf(impl, l, c) ==
    IF impl = "fantasy_stats" THEN _get_perfect_score(l, c) ELSE get_perfect_score(l)

\* PerfectOutcome with the comparison turned round
PerfectOutcomeSwapped(game, home_score, away_score) ==
    IF home_score < away_score
    THEN [winner |-> game.home_team, loser |-> game.away_team]
    ELSE [winner |-> game.away_team, loser |-> game.home_team]

\* The if/else of get_perfect_record that credits one game
PerfectOutcome(game, home_score, away_score) ==
    IF home_score > away_score
    THEN [winner |-> game.home_team, loser |-> game.away_team]
    ELSE [winner |-> game.away_team, loser |-> game.home_team]

\* list.count
Count(list, x) == Cardinality({i \in 1..Len(list) : list[i] = x})

\* team.wins and team.losses as the provider reports them: the games of the
\* processed weeks the team won and lost on actual score
TeamWins(t, bs) ==
    Cardinality({i \in 1..Len(bs) :
        \/ bs[i].home_team = t /\ bs[i].home_score > bs[i].away_score
        \/ bs[i].away_team = t /\ bs[i].away_score > bs[i].home_score})

TeamLosses(t, bs) ==
    Cardinality({i \in 1..Len(bs) :
        \/ bs[i].home_team = t /\ bs[i].home_score < bs[i].away_score
        \/ bs[i].away_team = t /\ bs[i].away_score < bs[i].home_score})

\* One team_record of the standings loop
TeamRecordLossesFromWinners(t, bs, ws, ls) ==
    [team |-> t, wins |-> TeamWins(t, bs), losses |-> TeamLosses(t, bs),
     wins_perfect |-> Count(ws, t), losses_perfect |-> Count(ws, t),
     diff |-> Count(ws, t) - TeamWins(t, bs)]

TeamRecord(t, bs, ws, ls) ==
    [team |-> t, wins |-> TeamWins(t, bs), losses |-> TeamLosses(t, bs),
     wins_perfect |-> Count(ws, t), losses_perfect |-> Count(ls, t),
     diff |-> Count(ws, t) - TeamWins(t, bs)]

\* natsort order of two "Perfect Record" strings "w-l": a before b when
\* sorting descending
PerfectRecordNotBelow(a, b) ==
    \/ a.wins_perfect > b.wins_perfect
    \/ a.wins_perfect = b.wins_perfect /\ a.losses_perfect >= b.losses_perfect

\* sort_values(by "Perfect Record", descending): the orders of the rows a
\* sort that promises nothing about equal keys can produce
SortedStandings(rows) ==
    {[i \in 1..Len(rows) |-> rows[perm[i]]] :
        perm \in {f \in [1..Len(rows) -> 1..Len(rows)] :
                    /\ \A i, j \in 1..Len(rows) : i # j => f[i] # f[j]
                    /\ \A i, j \in 1..Len(rows) :
                          i < j => PerfectRecordNotBelow(rows[f[i]], rows[f[j]])}}

InitPerfect == InitSeason /\ pc = "get_perfect_record"

\* One iteration of the week loop of get_perfect_record; an exception of the
\* engine leaves get_perfect_record
PerfectWeek ==
    /\ pc = "get_perfect_record"
    /\ week <= LastWeek(season)
    /\ \E hl \in GameLineups, al \in GameLineups :
          LET home == EngineOf(season.impl, hl, cfg)
              away == EngineOf(season.impl, al, cfg)
          IN  IF home.exc # NoExc \/ away.exc # NoExc
              THEN /\ pc' = "raised"
                   /\ result' = [impl |-> season.impl,
                                 exc |-> IF home.exc # NoExc THEN home.exc ELSE away.exc,
                                 total_score |-> 0]
                   /\ UNCHANGED << week, boxes, winners, losers >>
              ELSE \E game \in AccumulatorBoxScores(hl, al) :
                      LET out == PerfectOutcome(game, home.total_score, away.total_score)
                      IN  /\ game.home_team # game.away_team
                          /\ boxes' = Append(boxes, game)
                          /\ winners' = Append(winners, out.winner)
                          /\ losers' = Append(losers, out.loser)
                          /\ week' = week + 1
                          /\ UNCHANGED << pc, result >>
    /\ UNCHANGED << cfg, games, standings, season, lineup, idx, buckets, first_call,
                    draftVars, tableVars >>

\* The standings loop and the sort, once every week is folded in
PerfectStandings ==
    /\ pc = "get_perfect_record"
    /\ week > LastWeek(season)
    /\ standings' \in SortedStandings(
           [i \in 1..Len(LeagueTeams) |-> TeamRecord(LeagueTeams[i], boxes, winners, losers)])
    /\ pc' = "perfect_done"
    /\ UNCHANGED << cfg, week, games, boxes, winners, losers, season, engineVars, draftVars, tableVars >>

NextPerfect == PerfectWeek \/ PerfectStandings

SpecPerfect == InitPerfect /\ [][NextPerfect]_vars

----------------------------------------------------------------------------
(* Properties of the perfect record *)

GamesFolded == 1..Len(boxes)

\* The optimal score get_perfect_record computed for a side of a folded game
OptimalHome(i) == EngineOf(season.impl, boxes[i].home_lineup, cfg).total_score
OptimalAway(i) == EngineOf(season.impl, boxes[i].away_lineup, cfg).total_score

\* The side _get_games labels winner when the two actual scores are equal
ClassifierTieWinner(game) ==
    GameRow([game EXCEPT !.away_score = game.home_score]).winner_team

\* C6: on equal optimal scores the perfect win goes to the side the
\* classifier labels winner on equal actual scores; on unequal optimal
\* scores it goes to the higher one
C6_TieBreakConsistent ==
    (pc \in {"get_perfect_record", "perfect_done"} /\ season.impl = "fantasy_stats") =>
        \A i \in GamesFolded :
            /\ OptimalHome(i) = OptimalAway(i) => winners[i] = ClassifierTieWinner(boxes[i])
            /\ OptimalHome(i) > OptimalAway(i) => winners[i] = boxes[i].home_team
            /\ OptimalHome(i) < OptimalAway(i) => winners[i] = boxes[i].away_team

Lost(t, i) ==
    \/ boxes[i].home_team = t /\ boxes[i].home_score < boxes[i].away_score
    \/ boxes[i].away_team = t /\ boxes[i].away_score < boxes[i].home_score

Won(t, i) ==
    \/ boxes[i].home_team = t /\ boxes[i].home_score > boxes[i].away_score
    \/ boxes[i].away_team = t /\ boxes[i].away_score > boxes[i].home_score

OptimalGreater(t, i) ==
    \/ boxes[i].home_team = t /\ OptimalHome(i) > OptimalAway(i)
    \/ boxes[i].away_team = t /\ OptimalAway(i) > OptimalHome(i)

\* The index of the team's standings row
RowOf(t) == (CHOOSE i \in 1..Len(standings) : standings[i].team = t)

GamesLost(t) == Cardinality({i \in GamesFolded : Lost(t, i)})

\* C7 as stated: a team whose optimal score is higher in every game it lost
\* has Diff at least the number of games it lost
C7_DiffSignAsStated ==
    pc = "perfect_done" =>
        \A t \in Teams :
            (\A i \in GamesFolded : Lost(t, i) => OptimalGreater(t, i))
                => standings[RowOf(t)].diff >= GamesLost(t)

\* C7 amended: a team whose optimal score is higher in every game it lost
\* and in every game it won has Diff at least the number of games it lost
C7_DiffSign ==
    pc = "perfect_done" =>
        \A t \in Teams :
            (\A i \in GamesFolded : (Lost(t, i) \/ Won(t, i)) => OptimalGreater(t, i))
                => standings[RowOf(t)].diff >= GamesLost(t)

\* A team lost a game, had the higher optimal score in all it won or lost,
\* and its Diff is positive
C7_Witness ==
    /\ pc = "perfect_done"
    /\ \E t \in Teams :
          /\ GamesLost(t) >= 1
          /\ \A i \in GamesFolded : (Lost(t, i) \/ Won(t, i)) => OptimalGreater(t, i)
          /\ standings[RowOf(t)].diff >= 1


\* The folded games a team appeared in
GamesOf(t) ==
    { i \in GamesFolded : boxes[i].home_team = t \/ boxes[i].away_team = t }

RECURSIVE SumPerfectWins(_)
SumPerfectWins(rows) ==
    IF rows = <<>> THEN 0 ELSE Head(rows).wins_perfect + SumPerfectWins(Tail(rows))

RECURSIVE SumPerfectLosses(_)
SumPerfectLosses(rows) ==
    IF rows = <<>> THEN 0 ELSE Head(rows).losses_perfect + SumPerfectLosses(Tail(rows))

\* C18: in both files every game get_perfect_record has folded in added
\* one winner and one loser, the two sides of that game; every team's
\* perfect wins plus perfect losses is the number of folded games it
\* appeared in; and over the standings the perfect wins and the perfect
\* losses each add up to the number of folded games
C18_RecordConservation ==
    /\ Len(winners) = Len(boxes)
    /\ Len(losers) = Len(boxes)
    /\ \A i \in GamesFolded :
          /\ winners[i] # losers[i]
          /\ {winners[i], losers[i]} = {boxes[i].home_team, boxes[i].away_team}
    /\ \A t \in Teams : Count(winners, t) + Count(losers, t) = Cardinality(GamesOf(t))
    /\ pc = "perfect_done" =>
          /\ \A r \in 1..Len(standings) :
                standings[r].wins_perfect + standings[r].losses_perfect
                    = Cardinality(GamesOf(standings[r].team))
          /\ SumPerfectWins(standings) = Len(boxes)
          /\ SumPerfectLosses(standings) = Len(boxes)

\* The standings of two folded games of which each team won one on optimal
\* score
C18_Witness ==
    /\ pc = "perfect_done"
    /\ Len(boxes) = 2
    /\ winners[1] # winners[2]
    /\ \A r \in 1..Len(standings) :
          standings[r].wins_perfect = 1 /\ standings[r].losses_perfect = 1

----------------------------------------------------------------------------
(* Properties of the game classifier *)

RowsBuilt == 1..Len(games)

AwayIsWinner(i) ==
    /\ games[i].winner_team = boxes[i].away_team
    /\ games[i].winner_score = boxes[i].away_score
    /\ games[i].winner_proj = boxes[i].away_projected
    /\ games[i].winner_lineup = boxes[i].away_lineup
    /\ games[i].loser_team = boxes[i].home_team
    /\ games[i].loser_score = boxes[i].home_score
    /\ games[i].loser_proj = boxes[i].home_projected
    /\ games[i].loser_lineup = boxes[i].home_lineup

HomeIsWinner(i) ==
    /\ games[i].winner_team = boxes[i].home_team
    /\ games[i].winner_score = boxes[i].home_score
    /\ games[i].winner_proj = boxes[i].home_projected
    /\ games[i].winner_lineup = boxes[i].home_lineup
    /\ games[i].loser_team = boxes[i].away_team
    /\ games[i].loser_score = boxes[i].away_score
    /\ games[i].loser_proj = boxes[i].away_projected
    /\ games[i].loser_lineup = boxes[i].away_lineup

\* C8: the away team is winner exactly when its score is strictly greater,
\* otherwise the home team is; winner score >= loser score; name, score,
\* projection and lineup of a side stay together
C8_Classification ==
    \A i \in RowsBuilt :
        /\ boxes[i].away_score > boxes[i].home_score => AwayIsWinner(i)
        /\ boxes[i].away_score <= boxes[i].home_score => HomeIsWinner(i)
        /\ games[i].winner_score >= games[i].loser_score

\* A tied game went to the home team and another game to the away team
C8_Witness ==
    /\ \E i \in RowsBuilt :
          boxes[i].home_score = boxes[i].away_score /\ HomeIsWinner(i)
    /\ \E i \in RowsBuilt :
          boxes[i].away_score > boxes[i].home_score /\ AwayIsWinner(i)

\* C9: the diff is NaN exactly when both scores are 0, otherwise it is
\* |home score - away score|
C9_ScoreDiffRule ==
    \A i \in RowsBuilt :
        LET both_zero == boxes[i].home_score = 0 /\ boxes[i].away_score = 0
        IN  /\ games[i].score_diff.nan <=> both_zero
            /\ ~both_zero =>
                  games[i].score_diff
                      = Number(abs(boxes[i].home_score - boxes[i].away_score))

\* A tie at non-zero scores has diff 0, and a 0-0 game has NaN
C9_Witness ==
    /\ \E i \in RowsBuilt :
          /\ boxes[i].home_score = boxes[i].away_score
          /\ boxes[i].home_score # 0
          /\ games[i].score_diff = Number(0)
    /\ \E i \in RowsBuilt :
          /\ boxes[i].home_score = 0 /\ boxes[i].away_score = 0
          /\ games[i].score_diff = NaN

----------------------------------------------------------------------------
(* _get_draft_class *)

PlayerIds == 1..MaxDraft
StatWeeks == 0..MaxWeeks

\* pick.playerName and player.proTeam of the players of the model
PlayerName(id) == [n \in 1..4 |-> <<"P1", "P2", "P3", "P4">>[n]][id]
ProTeam(id) == IF id = 1 THEN "KC" ELSE "SF"
ProTeams == {ProTeam(id) : id \in PlayerIds}

\* The i-th pick of a draft of the two teams: they pick in turn
PickOf(id, i) ==
    [playerId |-> id, team_name |-> LeagueTeams[((i - 1) % 2) + 1],
     round_num |-> ((i - 1) \div 2) + 1]

\* Draft lists: every player is picked at most once
Drafts ==
    {[i \in 1..Len(ids) |-> PickOf(ids[i], i)] :
        ids \in {q \in SeqsUpTo(PlayerIds, MaxDraft) :
                    \A i, j \in 1..Len(q) : i # j => q[i] # q[j]}}

\* player.stats: week 0 is the season total; a week has a non-empty
\* breakdown when the player played in it
StatsOf(played) ==
    [k \in StatWeeks |->
        [breakdown |-> IF k \in played \/ (k = 0 /\ played # {})
                       THEN <<"stat">> ELSE <<>>]]

PlayerRecords ==
    {[playerId |-> id, proTeam |-> ProTeam(id), stats |-> StatsOf(played)] :
        id \in PlayerIds, played \in SUBSET (1..MaxWeeks)}

\* What league.player_info(playerId=draft_ids) can return: records of some
\* of the requested players, by id
PlayerLists(d) ==
    {l \in SeqsUpTo(PlayerRecords, Len(d)) :
        /\ \A i \in 1..Len(l) : \E j \in 1..Len(d) : l[i].playerId = d[j].playerId
        /\ \A i, j \in 1..Len(l) : i < j => l[i].playerId < l[j].playerId}

\* self.team_bye: empty when the request failed, else a bye week per team
TeamByes == {<<>>} \cup [ProTeams -> 1..MaxWeeks]

\* FantasyStats._get_games_played
_get_games_played(p, fw) ==
    Cardinality({k \in DOMAIN p.stats :
        ~(k = 0 \/ k > fw) /\ Len(p.stats[k].breakdown) > 0})

\* Index of the first player the inner loop matches, 0 if it runs to its end
FirstMatch(ps, pick) ==
    IF \E i \in 1..Len(ps) : ps[i].playerId = pick.playerId
    THEN CHOOSE i \in 1..Len(ps) :
            /\ ps[i].playerId = pick.playerId
            /\ \A j \in 1..(i - 1) : ps[j].playerId # pick.playerId
    ELSE 0

\* The five fields appended when a pick matches a player
MatchedFields(pick, p, gp) ==
    << [playerName |-> PlayerName(pick.playerId), proTeam |-> p.proTeam],
       pick.playerId, pick.team_name, pick.round_num, gp >>

\* The games-missed branch, lines 206-212
GamesMissedByeAfter(bye, p, fw, gp) ==
    IF DOMAIN bye # {}
    THEN IF bye[p.proTeam] >= fw THEN fw - gp ELSE fw - gp - 1
    ELSE fw - gp

GamesMissed(bye, p, fw, gp) ==
    IF DOMAIN bye # {}
    THEN IF bye[p.proTeam] > fw THEN fw - gp ELSE fw - gp - 1
    ELSE fw - gp

InitDraft ==
    /\ cfg = DefaultConfig
    /\ draft \in Drafts
    /\ players \in PlayerLists(draft)
    /\ team_bye \in TeamByes
    /\ finished_weeks \in 0..MaxWeeks
    /\ pick_i = 0
    /\ player = Unbound
    /\ player_stats = Unbound
    /\ games_played = Unbound
    /\ heap = <<>>
    /\ players_stats = <<>>
    /\ draft_class = NoDraftClass
    /\ pc = "get_draft_class"
    /\ IdleEngine
    /\ IdleSeason
    /\ IdleTables

\* One iteration of `for pick in self.league.draft`
DraftPick ==
    /\ pc = "get_draft_class"
    /\ pick_i < Len(draft)
    /\ LET pick == draft[pick_i + 1]
           m == FirstMatch(players, pick)
           \* the names after the inner loop
           player1 == IF m # 0 THEN Bound(players[m])
                      ELSE IF players # <<>> THEN Bound(players[Len(players)]) ELSE player
           gp1 == IF m # 0 THEN Bound(_get_games_played(players[m], finished_weeks))
                  ELSE games_played
           heap1 == IF m # 0 THEN Append(heap, MatchedFields(pick, players[m], gp1[1]))
                    ELSE heap
           stats1 == IF m # 0 THEN Bound(Len(heap1)) ELSE player_stats
       IN  /\ player' = player1
           /\ games_played' = gp1
           /\ player_stats' = stats1
           /\ pick_i' = pick_i + 1
           /\ IF (DOMAIN team_bye # {} /\ player1 = Unbound) \/ stats1 = Unbound
              THEN \* a name is read before it was ever assigned
                   /\ pc' = "draft_raised"
                   /\ draft_class' = [exc |-> "UnboundLocalError", rows |-> <<>>]
                   /\ heap' = heap1
                   /\ UNCHANGED players_stats
              ELSE /\ heap' = [heap1 EXCEPT ![stats1[1]] =
                                  Append(@, GamesMissed(team_bye, player1[1],
                                                        finished_weeks, gp1[1]))]
                   /\ players_stats' = Append(players_stats, stats1[1])
                   /\ UNCHANGED << pc, draft_class >>
    /\ UNCHANGED << cfg, draft, players, team_bye, finished_weeks, engineVars, seasonVars, tableVars >>

\* pd.DataFrame(players_stats, columns = six names): a row longer than the
\* columns is a ValueError
DraftDone ==
    /\ pc = "get_draft_class"
    /\ pick_i = Len(draft)
    /\ LET rows == [i \in 1..Len(players_stats) |-> heap[players_stats[i]]]
       IN  draft_class' =
              IF \E i \in 1..Len(rows) : Len(rows[i]) > 6
              THEN [exc |-> "ValueError", rows |-> <<>>]
              ELSE [exc |-> NoExc, rows |-> rows]
    /\ pc' = IF draft_class'.exc = NoExc THEN "draft_done" ELSE "draft_raised"
    /\ UNCHANGED << cfg, draft, players, team_bye, finished_weeks, pick_i, player,
                    player_stats, games_played, heap, players_stats, engineVars,
                    seasonVars, tableVars >>

NextDraft == DraftPick \/ DraftDone

SpecDraft == InitDraft /\ [][NextDraft]_vars

\* The picks that have a record among the returned players, in draft order
RECURSIVE MatchedPicks(_, _)
MatchedPicks(d, ps) ==
    IF d = <<>> THEN <<>>
    ELSE (IF FirstMatch(ps, Head(d)) # 0 THEN <<Head(d)>> ELSE <<>>)
         \o MatchedPicks(Tail(d), ps)

\* C10: _get_draft_class raises nothing and ends with exactly one six-field
\* row per pick that has a player record, in draft order, and none for a
\* pick that has no record
C10_UnmatchedPickSkipped ==
    /\ pc # "draft_raised"
    /\ pc = "draft_done" =>
          LET expected == MatchedPicks(draft, players)
          IN  /\ Len(draft_class.rows) = Len(expected)
              /\ \A i \in 1..Len(expected) :
                    /\ Len(draft_class.rows[i]) = 6
                    /\ draft_class.rows[i][2] = expected[i].playerId
                    /\ draft_class.rows[i][3] = expected[i].team_name
                    /\ draft_class.rows[i][4] = expected[i].round_num


\* The weeks 1..fw in which the player of a record played
PlayedWeeks(p, fw) ==
    { k \in 1..fw : k \in DOMAIN p.stats /\ p.stats[k].breakdown # <<>> }

\* The record the provider returned for a player id
RecordOf(id) == players[FirstMatch(players, [playerId |-> id])]

\* Games Missed as specified, from the bye week of the player's team
ExpectedMissed(p) ==
    LET gp == Cardinality(PlayedWeeks(p, finished_weeks))
    IN  IF team_bye = <<>> THEN finished_weeks - gp
        ELSE IF team_bye[p.proTeam] > finished_weeks
             THEN finished_weeks - gp
             ELSE finished_weeks - gp - 1

AllPicksMatched == \A i \in 1..Len(draft) : FirstMatch(players, draft[i]) # 0

\* C16: the row of every drafted player that has a record holds, as Games
\* Played, the weeks 1..finished_weeks the player played and, as Games
\* Missed, finished_weeks - games_played when there is no bye data or the
\* bye week of its team is after finished_weeks, and one less when the bye
\* week is at most finished_weeks; when every pick has a record the table is
\* built without an error, with or without bye data
C16_ByeAdjustment ==
    /\ \A k \in 1..Len(heap) :
          LET p == RecordOf(heap[k][2])
          IN  /\ Len(heap[k]) >= 6
              /\ heap[k][5] = Cardinality(PlayedWeeks(p, finished_weeks))
              /\ heap[k][6] = ExpectedMissed(p)
    /\ AllPicksMatched => pc # "draft_raised"
    /\ pc = "draft_done" =>
          \A i \in 1..Len(draft_class.rows) :
              /\ Len(draft_class.rows[i]) = 6
              /\ draft_class.rows[i][6] = ExpectedMissed(RecordOf(draft_class.rows[i][2]))

\* A finished table with bye data: the bye week of the first player's team
\* is the last finished week, that of the second player's team is later
C16_Witness ==
    /\ pc = "draft_done"
    /\ team_bye # <<>>
    /\ finished_weeks >= 1
    /\ Len(draft_class.rows) = 2
    /\ team_bye[RecordOf(draft_class.rows[1][2]).proTeam] = finished_weeks
    /\ team_bye[RecordOf(draft_class.rows[2][2]).proTeam] > finished_weeks
    /\ draft_class.rows[1][6] = finished_weeks - draft_class.rows[1][5] - 1
    /\ draft_class.rows[2][6] = finished_weeks - draft_class.rows[2][5]

----------------------------------------------------------------------------
(* The season aggregators: a player's season total from its per-week stats *)

\* Week keys of a stats mapping: 0 is the season-total entry, MaxWeeks + 1
\* lies beyond every cutoff
ScoreWeeks == 0..(MaxWeeks + 1)

\* player.stats as the aggregators read it: week key -> {"points": p}
WeekStats == UNION { [W -> [points : Points]] : W \in SUBSET ScoreWeeks }

\* FantasyStats._get_player_score: the loop over player_stats.keys()
RECURSIVE _get_player_score_loop(_, _, _)
_get_player_score_loop(stats, keys, score) ==
    IF keys = {} THEN score
    ELSE LET k == CHOOSE k \in keys : \A j \in keys : k <= j
         IN  IF k = 0
             THEN _get_player_score_loop(stats, keys \ {k}, score)
             ELSE _get_player_score_loop(stats, keys \ {k}, score + stats[k].points)

_get_player_score(stats) == _get_player_score_loop(stats, DOMAIN stats, 0)

\* main.get_player_score: the loop over player_stats.items()
RECURSIVE get_player_score_loop(_, _, _, _)
get_player_score_loop(stats, keys, num_of_weeks, score) ==
    IF keys = {} THEN score
    ELSE LET k == CHOOSE k \in keys : \A j \in keys : k <= j
         IN  IF k = 0 \/ k > num_of_weeks
             THEN get_player_score_loop(stats, keys \ {k}, num_of_weeks, score)
             ELSE get_player_score_loop(stats, keys \ {k}, num_of_weeks,
                                        score + stats[k].points)

get_player_score(stats, num_of_weeks) ==
    get_player_score_loop(stats, DOMAIN stats, num_of_weeks, 0)

InitScore ==
    /\ cfg = DefaultConfig
    /\ week_stats \in WeekStats
    /\ max_week \in 0..MaxWeeks
    /\ player_score = NoScore
    /\ pc = "get_player_score"
    /\ IdleEngine
    /\ IdleSeason
    /\ IdleDraft
    /\ IdleFetch
    /\ IdleJoin

\* A call of FantasyStats._get_player_score while self.finished_weeks is
\* max_week
PlayerScore ==
    /\ pc = "get_player_score"
    /\ player_score' = [impl |-> "fantasy_stats", score |-> _get_player_score(week_stats)]
    /\ pc' = "scored"
    /\ UNCHANGED << cfg, week_stats, max_week, engineVars, seasonVars, draftVars,
                    player_map, provider, futures, players_stat, scoring,
                    top_players, join_i, drafted_by, draft_round, joined >>

\* A call of main.get_player_score with num_of_weeks = max_week
MainPlayerScore ==
    /\ pc = "get_player_score"
    /\ player_score' = [impl |-> "main", score |-> get_player_score(week_stats, max_week)]
    /\ pc' = "scored"
    /\ UNCHANGED << cfg, week_stats, max_week, engineVars, seasonVars, draftVars,
                    player_map, provider, futures, players_stat, scoring,
                    top_players, join_i, drafted_by, draft_round, joined >>

NextScore == PlayerScore \/ MainPlayerScore

SpecScore == InitScore /\ [][NextScore]_vars

\* The sum of points over the weeks of a set
RECURSIVE SumPoints(_, _)
SumPoints(stats, ks) ==
    IF ks = {} THEN 0
    ELSE LET k == CHOOSE k \in ks : TRUE
         IN  stats[k].points + SumPoints(stats, ks \ {k})

\* The season total as specified: the weeks k with 1 <= k <= mw
WindowTotal(stats, mw) ==
    SumPoints(stats, { k \in DOMAIN stats : 1 <= k /\ k <= mw })

\* C11: in both files the season total an aggregator returns is the sum of
\* points over exactly the week keys k with 1 <= k <= max_week; week 0 and
\* the weeks after max_week contribute nothing
C11_SeasonWindow ==
    pc = "scored" => player_score.score = WindowTotal(week_stats, max_week)

----------------------------------------------------------------------------
(* The concurrent season fetch of src/main.py *)

max_workers == 16    \* ThreadPoolExecutor(max_workers=16)
NumOfWeeks == 18   \* get_player_score(player_info.stats, 18)

\* A key of league.player_map is a player id (an int) or a player name (a str)
IdKey(n) == [int |-> n]
NameKey(t) == [str |-> t]
FetchIds == {1, 2}
FetchKeys == { IdKey(n) : n \in FetchIds } \cup { NameKey("Player1") }

\* int(player): an int is returned as it is, a str is parsed as a decimal
\* number and raises ValueError when it is not one
DecimalStrings == [ text : {"1"}, value : {1} ] \cup [ text : {"2"}, value : {2} ]
int(key) ==
    IF "int" \in DOMAIN key THEN [exc |-> NoExc, value |-> key.int]
    ELSE IF \E d \in DecimalStrings : d.text = key.str
         THEN [exc |-> NoExc,
               value |-> (CHOOSE d \in DecimalStrings : d.text = key.str).value]
         ELSE [exc |-> "ValueError", value |-> 0]

\* What league.player_info returns: None or a player record. The stats hold
\* the season-total entry, one played week and one week beyond week 18
NoInfo == [none |-> TRUE]
InfoStats(total) ==
    [ k \in {0, 1, NumOfWeeks + 1} |->
        [points |-> IF k = NumOfWeeks + 1 THEN 1 ELSE total] ]
PlayerInfos(id) ==
    { [none |-> FALSE, name |-> PlayerName(id), position |-> "RB",
       total_points |-> t, projected_total_points |-> p, stats |-> InfoStats(t)] :
         t \in Points, p \in Projections }
Providers ==
    { f \in [FetchIds -> {NoInfo} \cup UNION { PlayerInfos(id) : id \in FetchIds }] :
        \A id \in FetchIds : f[id] = NoInfo \/ f[id] \in PlayerInfos(id) }

\* The value of a future: None or a six-field row
None == [none |-> TRUE, row |-> <<>>]
Row(r) == [none |-> FALSE, row |-> r]

\* main.get_player_scoring against the provider prov
get_player_scoring(key, prov) ==
    LET player_id == int(key)
    IN  IF player_id.exc = "ValueError" THEN None
        ELSE LET player_info == IF player_id.value \in DOMAIN prov
                                THEN prov[player_id.value] ELSE NoInfo
             IN  IF player_info = NoInfo THEN None
                 ELSE IF player_info.total_points = 0
                         /\ player_info.projected_total_points = 0
                      THEN None
                      ELSE LET score == get_player_score(player_info.stats, NumOfWeeks)
                           IN  Row(<< player_info.name,
                                      player_id.value,
                                      player_info.position,
                                      player_info.projected_total_points,
                                      score,
                                      score - player_info.projected_total_points >>)

\* The body of the as_completed loop: a None result is skipped, a row is
\* added to players_stat
CollectResultDropsRows(stat, res) ==
    IF res.none THEN <<>> ELSE Append(stat, res.row)

CollectResult(stat, res) ==
    IF res.none THEN stat ELSE Append(stat, res.row)

Running == { k \in DOMAIN futures : futures[k].state = "running" }

InitFetch ==
    /\ cfg = DefaultConfig
    /\ player_map = FetchKeys
    /\ provider \in Providers
    /\ futures = [ k \in FetchKeys |-> [state |-> "pending", result |-> None] ]
    /\ players_stat = <<>>
    /\ scoring = <<>>
    /\ pc = "get_all_player_scoring"
    /\ IdleEngine
    /\ IdleSeason
    /\ IdleDraft
    /\ IdleScore
    /\ IdleJoin

\* A worker thread of the pool takes a submitted call
StartFetch ==
    /\ pc = "get_all_player_scoring"
    /\ Cardinality(Running) < max_workers
    /\ \E k \in DOMAIN futures :
          /\ futures[k].state = "pending"
          /\ futures' = [futures EXCEPT ![k].state = "running"]
    /\ UNCHANGED << cfg, pc, player_map, provider, players_stat, scoring, engineVars,
                    seasonVars, draftVars, week_stats, max_week, player_score,
                    top_players, join_i, drafted_by, draft_round, joined >>

\* A worker thread returns from get_player_scoring
FinishFetch ==
    /\ pc = "get_all_player_scoring"
    /\ \E k \in DOMAIN futures :
          /\ futures[k].state = "running"
          /\ futures' = [futures EXCEPT ![k] =
                            [state |-> "done", result |-> get_player_scoring(k, provider)]]
    /\ UNCHANGED << cfg, pc, player_map, provider, players_stat, scoring, engineVars,
                    seasonVars, draftVars, week_stats, max_week, player_score,
                    top_players, join_i, drafted_by, draft_round, joined >>

\* One iteration of the as_completed loop: any finished future not yet
\* yielded may come next
Collect ==
    /\ pc = "get_all_player_scoring"
    /\ \E k \in DOMAIN futures :
          /\ futures[k].state = "done"
          /\ futures' = [futures EXCEPT ![k].state = "yielded"]
          /\ players_stat' = CollectResult(players_stat, futures[k].result)
    /\ UNCHANGED << cfg, pc, player_map, provider, scoring, engineVars,
                    seasonVars, draftVars, week_stats, max_week, player_score,
                    top_players, join_i, drafted_by, draft_round, joined >>

\* as_completed is exhausted: the rows become the returned table
FetchDone ==
    /\ pc = "get_all_player_scoring"
    /\ \A k \in DOMAIN futures : futures[k].state = "yielded"
    /\ scoring' = players_stat
    /\ pc' = "fetch_done"
    /\ UNCHANGED << cfg, player_map, provider, futures, players_stat, engineVars,
                    seasonVars, draftVars, week_stats, max_week, player_score,
                    top_players, join_i, drafted_by, draft_round, joined >>

NextFetch == StartFetch \/ FinishFetch \/ Collect \/ FetchDone

SpecFetch == InitFetch /\ [][NextFetch]_vars

\* The ids of player_map whose lookup returned a record with non-zero total
\* or projected points
ScoringIds ==
    { n \in FetchIds :
        /\ IdKey(n) \in player_map
        /\ provider[n] # NoInfo
        /\ (provider[n].total_points # 0 \/ provider[n].projected_total_points # 0) }

RowIds(rows) == { rows[i][2] : i \in 1..Len(rows) }

\* C12: whatever the order in which the workers finish and the futures are
\* yielded, get_all_player_scoring returns exactly one row for every player
\* id whose lookup returned a record with non-zero total or projected
\* points and no row for any other key; a skipped key removes no row that
\* was already collected
C12_CompletionOrderIndependent ==
    /\ \A i \in 1..Len(players_stat) :
          /\ players_stat[i][2] \in ScoringIds
          /\ futures[IdKey(players_stat[i][2])].state = "yielded"
          /\ players_stat[i] = get_player_scoring(IdKey(players_stat[i][2]), provider).row
    /\ \A n \in ScoringIds :
          futures[IdKey(n)].state = "yielded" => n \in RowIds(players_stat)
    /\ Len(players_stat) = Cardinality(RowIds(players_stat))
    /\ pc = "fetch_done" =>
          /\ scoring = players_stat
          /\ RowIds(scoring) = ScoringIds

\* Both players have a row, player 2 was yielded before player 1, and the
\* name key and nothing else was skipped
C12_Witness ==
    /\ pc = "fetch_done"
    /\ Len(scoring) = 2
    /\ scoring[1][2] = 2
    /\ scoring[2][2] = 1

----------------------------------------------------------------------------
(* The draft join: _add_draft_info and main.add_draft_info *)

\* Player ids of a scoring table: MaxDraft + 1 is never drafted
JoinIds == 1..(MaxDraft + 1)

\* A row of the scoring table each file passes to its join: Player Name,
\* playerId, (Current Team,) Position, Projected Points, Total Points, Diff
ScoringRow(impl, id) ==
    IF impl = "_add_draft_info"
    THEN << PlayerName(id), id, "-", "RB", 0, 0, 0 >>
    ELSE << PlayerName(id), id, "RB", 0, 0, 0 >>

ScoringTables(impl) ==
    { [i \in 1..Len(ids) |-> ScoringRow(impl, ids[i])] :
        ids \in SeqsUpTo(JoinIds, MaxDraft) }

\* The draft table of a draft whose picks all had a record: Player Name,
\* playerId, Team Name, Round, Games Played, Games Missed
DraftTable(d) ==
    [i \in 1..Len(d) |->
        << PlayerName(d[i].playerId), d[i].playerId, d[i].team_name,
           d[i].round_num, 0, 0 >>]

\* A cell of the Draft Round column is a number or the string "-"
IntCell(n) == [int |-> n]
StrCell(t) == [str |-> t]

\* draft[draft["playerId"] == player_id][column].values
RECURSIVE ColumnValues(_, _, _)
ColumnValuesUnfiltered(rows, player_id, col) ==
    [i \in 1..Len(rows) |-> rows[i][col]]

ColumnValues(rows, player_id, col) ==
    IF rows = <<>> THEN <<>>
    ELSE (IF Head(rows)[2] = player_id THEN <<Head(rows)[col]>> ELSE <<>>)
         \o ColumnValues(Tail(rows), player_id, col)

\* The try/except of one iteration of FantasyStats._add_draft_info:
\* .values[0] of an empty selection raises IndexError
_add_draft_info_step(rows, player_id, by, round) ==
    LET team_names == ColumnValues(rows, player_id, 3)
        rounds == ColumnValues(rows, player_id, 4)
    IN  IF team_names = <<>>
        THEN [drafted_by |-> Append(by, "-"), draft_round |-> Append(round, StrCell("-"))]
        ELSE IF rounds = <<>>
             THEN [drafted_by |-> Append(Append(by, team_names[1]), "-"),
                   draft_round |-> Append(round, StrCell("-"))]
             ELSE [drafted_by |-> Append(by, team_names[1]),
                   draft_round |-> Append(round, IntCell(rounds[1]))]

\* The try/except of one iteration of main.add_draft_info
add_draft_info_step(rows, playerId, by, round) ==
    LET team_names == ColumnValues(rows, playerId, 3)
        rounds == ColumnValues(rows, playerId, 4)
    IN  IF team_names = <<>>
        THEN [drafted_by |-> Append(by, "-"), draft_round |-> Append(round, StrCell("-"))]
        ELSE IF rounds = <<>>
             THEN [drafted_by |-> Append(Append(by, team_names[1]), "-"),
                   draft_round |-> Append(round, StrCell("-"))]
             ELSE [drafted_by |-> Append(by, team_names[1]),
                   draft_round |-> Append(round, IntCell(rounds[1]))]

\* DataFrame.insert(loc, column, value): the cell becomes field loc + 1
InsertColumn(row, loc, cell) ==
    SubSeq(row, 1, loc) \o <<cell>> \o SubSeq(row, loc + 1, Len(row))

InitJoin ==
    /\ cfg = DefaultConfig
    /\ pc \in {"_add_draft_info", "add_draft_info"}
    /\ top_players \in ScoringTables(pc)
    /\ \E d \in Drafts : draft_class = [exc |-> NoExc, rows |-> DraftTable(d)]
    /\ join_i = 0
    /\ drafted_by = <<>>
    /\ draft_round = <<>>
    /\ joined = <<>>
    /\ draft = <<>> /\ players = <<>> /\ team_bye = <<>> /\ finished_weeks = 0
    /\ pick_i = 0 /\ player = Unbound /\ player_stats = Unbound
    /\ games_played = Unbound /\ heap = <<>> /\ players_stats = <<>>
    /\ IdleEngine
    /\ IdleSeason
    /\ IdleScore
    /\ IdleFetch

\* One iteration of `for player_id in player_ids` of _add_draft_info
JoinPlayer ==
    /\ pc = "_add_draft_info"
    /\ join_i < Len(top_players)
    /\ LET r == _add_draft_info_step(draft_class.rows, top_players[join_i + 1][2],
                                     drafted_by, draft_round)
       IN  /\ drafted_by' = r.drafted_by
           /\ draft_round' = r.draft_round
    /\ join_i' = join_i + 1
    /\ UNCHANGED << cfg, pc, top_players, joined, engineVars, seasonVars, draftVars,
                    week_stats, max_week, player_score, player_map, provider,
                    futures, players_stat, scoring >>

\* One iteration of `for playerId in playerIds` of main.add_draft_info
MainJoinPlayer ==
    /\ pc = "add_draft_info"
    /\ join_i < Len(top_players)
    /\ LET r == add_draft_info_step(draft_class.rows, top_players[join_i + 1][2],
                                    drafted_by, draft_round)
       IN  /\ drafted_by' = r.drafted_by
           /\ draft_round' = r.draft_round
    /\ join_i' = join_i + 1
    /\ UNCHANGED << cfg, pc, top_players, joined, engineVars, seasonVars, draftVars,
                    week_stats, max_week, player_score, player_map, provider,
                    futures, players_stat, scoring >>

\* The two players.insert calls of either file; a column whose length is not
\* the number of rows raises ValueError
JoinDone ==
    /\ pc \in {"_add_draft_info", "add_draft_info"}
    /\ join_i = Len(top_players)
    /\ IF Len(drafted_by) = Len(top_players) /\ Len(draft_round) = Len(top_players)
       THEN /\ joined' = [i \in 1..Len(top_players) |->
                            InsertColumn(InsertColumn(top_players[i], 3, drafted_by[i]),
                                         4, draft_round[i])]
            /\ pc' = "join_done"
       ELSE /\ joined' = <<>>
            /\ pc' = "join_raised"
    /\ UNCHANGED << cfg, top_players, join_i, drafted_by, draft_round, engineVars,
                    seasonVars, draftVars, week_stats, max_week, player_score,
                    player_map, provider, futures, players_stat, scoring >>

NextJoin == JoinPlayer \/ MainJoinPlayer \/ JoinDone

SpecJoin == InitJoin /\ [][NextJoin]_vars

\* The rows of the draft table that name a player
DraftRowsOf(id) ==
    { i \in 1..Len(draft_class.rows) : draft_class.rows[i][2] = id }

\* C15: in both files the join ends without an error and adds, to every
\* player of the input table and in input order, one Drafted by and one
\* Draft Round field: the team name and round of the player's draft row,
\* neither of them "-", when the player is in the draft table, and "-" and
\* "-" when it is not
C15_JoinComplete ==
    /\ pc # "join_raised"
    /\ Len(drafted_by) = join_i
    /\ Len(draft_round) = join_i
    /\ pc = "join_done" =>
          /\ Len(joined) = Len(top_players)
          /\ \A i \in 1..Len(top_players) :
                LET id == top_players[i][2]
                IN  /\ joined[i][1] = top_players[i][1]
                    /\ joined[i][2] = id
                    /\ Len(joined[i]) = Len(top_players[i]) + 2
                    /\ IF DraftRowsOf(id) # {}
                       THEN \E k \in DraftRowsOf(id) :
                               /\ joined[i][4] = draft_class.rows[k][3]
                               /\ joined[i][5] = IntCell(draft_class.rows[k][4])
                               /\ joined[i][4] # "-"
                               /\ joined[i][5] # StrCell("-")
                       ELSE /\ joined[i][4] = "-"
                            /\ joined[i][5] = StrCell("-")

\* The join of fantasy_stats.py has ended on a table whose first player was
\* drafted in round 1 and whose second player was not drafted
C15_Witness ==
    /\ pc = "join_done"
    /\ Len(top_players) = 2
    /\ Len(top_players[1]) = 7
    /\ DraftRowsOf(top_players[1][2]) # {}
    /\ DraftRowsOf(top_players[2][2]) = {}
    /\ joined[1][5] = IntCell(1)
    /\ joined[2][5] = StrCell("-")

====
